---- MODULE Spec2Model ----
(***************************************************************************)
(* Model of github.com/liu-dc/exception: package throw (classified error,  *)
(* raise primitives) and package try (the dispatch engine: chained         *)
(* registration, Finally/Do execution, executeHandlers, normalizeError).   *)
(*                                                                         *)
(* One engine instance is built by Run, mutated by chained registration    *)
(* calls and consumed once by Finally or Do.  An execution call is one     *)
(* synchronous Go call, so it is one action; the order of what happens     *)
(* inside it is recorded in the sequence `log`.                            *)
(***************************************************************************)
EXTENDS Integers, Sequences, FiniteSets, TLC

\* ------------------------------------------------------------------------
\* Bounds of the model
\* ------------------------------------------------------------------------

\* Number of chained registration calls made on the engine before execution.
MaxRegs == 3

\* ------------------------------------------------------------------------
\* package throw
\* ------------------------------------------------------------------------

\* const FallbackErrorIndex = math.MinInt (the value of a 32-bit int build).
FallbackErrorIndex == (-2147483647) - 1

\* The nil func / nil handler value.
Nil == "nil"

\* A Go map[string]interface{}: nil (not allocated) or a set of key/value
\* pairs with unique keys.
NilMap == [allocated |-> FALSE, kv |-> {}]

EmptyMap == [allocated |-> TRUE, kv |-> {}]

MapLit(key, value) == [allocated |-> TRUE, kv |-> {<<key, value>>}]

\* type Error struct { Index; Message; Stack; Context }
Error(index, message, stack, context) ==
    [Index |-> index, Message |-> message, Stack |-> stack, Context |-> context]

\* The zero value of Error.
ZeroError == Error(0, "", "", NilMap)

\* func (e Error) GetContext(key) (interface{}, bool)
GetContext(e, key) ==
    IF ~e.Context.allocated
    THEN [value |-> Nil, exists |-> FALSE]
    ELSE IF \E p \in e.Context.kv : p[1] = key
         THEN [value |-> (CHOOSE p \in e.Context.kv : p[1] = key)[2], exists |-> TRUE]
         ELSE [value |-> Nil, exists |-> FALSE]

\* func (e Error) HasContext(key) bool
HasContext(e, key) ==
    IF ~e.Context.allocated
    THEN FALSE
    ELSE \E p \in e.Context.kv : p[1] = key

\* func GetPanicStack() string: the text of the call stack at the call site.
GetPanicStack(site) == "stack@" \o site

\* What a call of a func() ends with: a normal return or a panic payload.
\* A payload is a throw.Error, the throw.Pass{} marker, or any other value.
Returns == [type |-> "none", err |-> ZeroError, raw |-> ""]

PanicError(e) == [type |-> "Error", err |-> e, raw |-> ""]

\* type Pass struct{}; panic(throw.Pass{})
Pass == [type |-> "Pass", err |-> ZeroError, raw |-> ""]

\* panic(v) for a v that is neither throw.Error nor throw.Pass{}.
PanicOther(v) == [type |-> "other", err |-> ZeroError, raw |-> v]

\* func Index(index int, message string)
throw_Index(index, message) ==
    PanicError(Error(index, message, GetPanicStack("throw"), NilMap))

\* func IndexWithContext(index, message, key, ctxValue)
throw_IndexWithContext(index, message, key, ctxValue) ==
    PanicError(Error(index, message, GetPanicStack("throw"), MapLit(key, ctxValue)))

\* func IndexNoStack(index int, message string)
throw_IndexNoStack(index, message) ==
    PanicError(Error(index, message, "", NilMap))

\* func New(message string)
throw_New(message) == throw_Index(FallbackErrorIndex, message)

\* A Go error value: nil, or a value whose Error() method returns text.
NilError == [nil |-> TRUE, text |-> ""]

errors_New(text) == [nil |-> FALSE, text |-> text]

\* err.Error()
Error_Text(err) == err.text

\* What a call of a helper ends with: the panic payload, if any, and the
\* returned values, if it returns any.
Panics(payload) == [panic |-> payload, ret |-> <<>>]

ReturnsNothing == [panic |-> Returns, ret |-> <<>>]

ReturnsValue(value) == [panic |-> Returns, ret |-> <<value>>]

\* func NewWithContext(message, key, ctxValue)
throw_NewWithContext(message, key, ctxValue) ==
    throw_IndexWithContext(FallbackErrorIndex, message, key, ctxValue)

\* func Err(err error)
throw_Err(err) ==
    IF ~err.nil
    THEN Panics(throw_Index(FallbackErrorIndex, Error_Text(err)))
    ELSE ReturnsNothing

\* func ErrWithContext(err, key, ctxValue)
throw_ErrWithContext(err, key, ctxValue) ==
    IF ~err.nil
    THEN Panics(throw_IndexWithContext(FallbackErrorIndex, Error_Text(err), key, ctxValue))
    ELSE ReturnsNothing

\* func True(value bool, message string)
throw_True(value, message) ==
    IF value THEN Panics(throw_Index(FallbackErrorIndex, message)) ELSE ReturnsNothing

\* func TrueWithContext(value, message, key, ctxValue)
throw_TrueWithContext(value, message, key, ctxValue) ==
    IF value
    THEN Panics(throw_IndexWithContext(FallbackErrorIndex, message, key, ctxValue))
    ELSE ReturnsNothing

\* Mutant of False: the condition is not negated.
throw_False_NotNegated(value, message) ==
    IF value THEN Panics(throw_Index(FallbackErrorIndex, message)) ELSE ReturnsNothing

\* func False(value bool, message string)
throw_False(value, message) ==
    IF ~value THEN Panics(throw_Index(FallbackErrorIndex, message)) ELSE ReturnsNothing

\* func FalseWithContext(value, message, key, ctxValue)
throw_FalseWithContext(value, message, key, ctxValue) ==
    IF ~value
    THEN Panics(throw_IndexWithContext(FallbackErrorIndex, message, key, ctxValue))
    ELSE ReturnsNothing

\* func TrueIndex(index int, value bool, message string)
throw_TrueIndex(index, value, message) ==
    IF value THEN Panics(throw_Index(index, message)) ELSE ReturnsNothing

\* func TrueIndexWithContext(index, value, message, key, ctxValue)
throw_TrueIndexWithContext(index, value, message, key, ctxValue) ==
    IF value
    THEN Panics(throw_IndexWithContext(index, message, key, ctxValue))
    ELSE ReturnsNothing

\* func FalseIndex(index int, value bool, message string)
throw_FalseIndex(index, value, message) ==
    IF ~value THEN Panics(throw_Index(index, message)) ELSE ReturnsNothing

\* func FalseIndexWithContext(index, value, message, key, ctxValue)
throw_FalseIndexWithContext(index, value, message, key, ctxValue) ==
    IF ~value
    THEN Panics(throw_IndexWithContext(index, message, key, ctxValue))
    ELSE ReturnsNothing

\* func FuncErr(fn func() error): fn is given by the error it returns.
throw_FuncErr(fn) ==
    LET err == fn
    IN  IF ~err.nil
        THEN Panics(throw_Index(FallbackErrorIndex, Error_Text(err)))
        ELSE ReturnsNothing

\* func FuncErrWithContext(fn, key, ctxValue)
throw_FuncErrWithContext(fn, key, ctxValue) ==
    LET err == fn
    IN  IF ~err.nil
        THEN Panics(throw_IndexWithContext(FallbackErrorIndex, Error_Text(err), key, ctxValue))
        ELSE ReturnsNothing

\* func ValueErr[T any](value T, err error) T
throw_ValueErr(value, err) ==
    IF ~err.nil
    THEN Panics(throw_Index(FallbackErrorIndex, Error_Text(err)))
    ELSE ReturnsValue(value)

\* func ValueErrWithContext[T any](value T, err error, key, ctxValue) T
throw_ValueErrWithContext(value, err, key, ctxValue) ==
    IF ~err.nil
    THEN Panics(throw_IndexWithContext(FallbackErrorIndex, Error_Text(err), key, ctxValue))
    ELSE ReturnsValue(value)

\* func IndexErr(index int, err error)
throw_IndexErr(index, err) ==
    IF ~err.nil THEN Panics(throw_Index(index, Error_Text(err))) ELSE ReturnsNothing

\* func IndexErrWithContext(index, err, key, ctxValue)
throw_IndexErrWithContext(index, err, key, ctxValue) ==
    IF ~err.nil
    THEN Panics(throw_IndexWithContext(index, Error_Text(err), key, ctxValue))
    ELSE ReturnsNothing

\* ------------------------------------------------------------------------
\* Inputs
\* ------------------------------------------------------------------------

\* Handler closures (they return normally and leave the error alone).
Handlers == {"h1", "h2"}

\* A handler closure that raises: it calls throw.Index(503, "from handler").
RaisingHandlers == {"hThrow"}

\* What the call handler(err) ends with.
HandlerResult(handler, err) ==
    IF handler \in RaisingHandlers
    THEN throw_Index(503, "from handler")
    ELSE Returns

\* Codes used at registration and at the raise site.
Codes == {0, FallbackErrorIndex, 404, 500}

\* Group literals passed to Try.Group.
Groups == {<<>>, <<404>>, <<404, 500>>, <<404, 404>>, <<0, FallbackErrorIndex, 500>>}

\* Filter closures, named by what they compute.
Filters == {"allowAll", "denyAll", "only4xx", "hasUserID"}

\* The finalizer closure passed to Finally.
Finalizers == {"fin"}

\* The protected blocks: what the tryFunc closure does when called.
Blocks ==
    {Returns, Pass, PanicOther("boom")}
    \cup {throw_Index(c, "msg") : c \in {404, 500}}
    \cup {throw_New("msg"),
          throw_IndexNoStack(0, "msg"),
          throw_IndexWithContext(404, "msg", "userID", 123)}

\* The result of the filter closure f on err.
FilterResult(f, err) ==
    CASE f = "allowAll"  -> TRUE
      [] f = "denyAll"   -> FALSE
      [] f = "only4xx"   -> err.Index >= 400 /\ err.Index < 500
      [] f = "hasUserID" -> GetContext(err, "userID").exists

\* ------------------------------------------------------------------------
\* package try: the engine
\* ------------------------------------------------------------------------

\* make(map[int]...): a map with no key.
EmptyFn == [c \in {} |-> Nil]

\* m[k] = v on a Go map.
MapSet(m, k, v) == [x \in (DOMAIN m) \cup {k} |-> IF x = k THEN v ELSE m[x]]

\* append(m[k], v) on a map of slices: the slice of an absent key is nil.
MapAppend(m, k, v) == MapSet(m, k, (IF k \in DOMAIN m THEN m[k] ELSE <<>>) \o <<v>>)

\* func Run(tryHandler func()) *Try
Run(tryHandler) ==
    [specificHandlers |-> EmptyFn,
     groupHandlers    |-> EmptyFn,
     globalHandler    |-> Nil,
     fallbackHandler  |-> Nil,
     tryFunc          |-> tryHandler,
     filters          |-> <<>>]

\* func (ts *Try) Index(index int, handler ErrorHandler) *Try
Try_Index(t, index, handler) ==
    IF handler # Nil /\ index # 0 /\ index # FallbackErrorIndex
    THEN [t EXCEPT !.specificHandlers = MapSet(@, index, handler)]
    ELSE t

\* func (ts *Try) Catch(handler ErrorHandler) *Try
Try_Catch(t, handler) ==
    IF handler # Nil THEN [t EXCEPT !.globalHandler = handler] ELSE t

\* Mutant of Try_Unknown: a nil handler clears the fallback handler.
Try_Unknown_NoNilCheck(t, handler) == [t EXCEPT !.fallbackHandler = handler]

\* func (ts *Try) Unknown(handler ErrorHandler) *Try
Try_Unknown(t, handler) ==
    IF handler # Nil THEN [t EXCEPT !.fallbackHandler = handler] ELSE t

\* Mutant of GroupLoop: the reserved codes of a group are registered too.
RECURSIVE GroupLoop_NoSkip(_, _, _, _)
GroupLoop_NoSkip(gh, group, i, handler) ==
    IF i > Len(group)
    THEN gh
    ELSE GroupLoop_NoSkip(MapAppend(gh, group[i], handler), group, i + 1, handler)

\* Mutant of GroupLoop: a code that occurs again in the group is registered
\* at its first occurrence only.
RECURSIVE GroupLoop_OncePerCode(_, _, _, _)
GroupLoop_OncePerCode(gh, group, i, handler) ==
    IF i > Len(group)
    THEN gh
    ELSE IF /\ group[i] # 0
            /\ group[i] # FallbackErrorIndex
            /\ \A j \in 1..(i - 1) : group[j] # group[i]
         THEN GroupLoop_OncePerCode(MapAppend(gh, group[i], handler), group, i + 1, handler)
         ELSE GroupLoop_OncePerCode(gh, group, i + 1, handler)

\* The body of the range loop of Try.Group, from position i of the group.
RECURSIVE GroupLoop(_, _, _, _)
GroupLoop(gh, group, i, handler) ==
    IF i > Len(group)
    THEN gh
    ELSE IF group[i] # 0 /\ group[i] # FallbackErrorIndex
         THEN GroupLoop(MapAppend(gh, group[i], handler), group, i + 1, handler)
         ELSE GroupLoop(gh, group, i + 1, handler)

\* func (ts *Try) Group(group Group, handler ErrorHandler) *Try
Try_Group(t, group, handler) ==
    IF handler # Nil /\ Len(group) > 0
    THEN [t EXCEPT !.groupHandlers = GroupLoop(@, group, 1, handler)]
    ELSE t

\* func (ts *Try) Filter(filter func(throw.Error) bool) *Try
Try_Filter(t, filter) ==
    IF filter # Nil THEN [t EXCEPT !.filters = Append(@, filter)] ELSE t

\* An entry of the execution log: the call of the protected block
\* (ev = "block"), of a filter (ev = "filter"), of a handler (ev = "handler",
\* kind = the step of executeHandlers that made the call) or of the
\* finalizer (ev = "finally"), with the error passed to it.
Event(ev, kind, fn, err) == [ev |-> ev, kind |-> kind, fn |-> fn, err |-> err]

\* handler(err)
HandlerCall(kind, handler, err) == Event("handler", kind, handler, err)

\* Mutant of FilterLoop: only the first filter is evaluated.
FilterLoop_FirstOnly(filters, i, err) ==
    IF i > Len(filters)
    THEN [calls |-> <<>>, filtered |-> FALSE]
    ELSE [calls    |-> <<Event("filter", "", filters[i], err)>>,
          filtered |-> ~FilterResult(filters[i], err)]

\* Mutant of FilterLoop: every filter is evaluated, also after one has
\* returned false.
RECURSIVE FilterLoop_NoReturn(_, _, _)
FilterLoop_NoReturn(filters, i, err) ==
    IF i > Len(filters)
    THEN [calls |-> <<>>, filtered |-> FALSE]
    ELSE LET rest == FilterLoop_NoReturn(filters, i + 1, err)
         IN  [calls    |-> <<Event("filter", "", filters[i], err)>> \o rest.calls,
              filtered |-> rest.filtered \/ ~FilterResult(filters[i], err)]

\* Step 0 of executeHandlers: for _, filter := range ts.filters, from
\* position i; returns at the first filter whose result is false.
RECURSIVE FilterLoop(_, _, _)
FilterLoop(filters, i, err) ==
    IF i > Len(filters)
    THEN [calls |-> <<>>, filtered |-> FALSE]
    ELSE IF ~FilterResult(filters[i], err)
         THEN [calls |-> <<Event("filter", "", filters[i], err)>>, filtered |-> TRUE]
         ELSE LET rest == FilterLoop(filters, i + 1, err)
              IN  [calls    |-> <<Event("filter", "", filters[i], err)>> \o rest.calls,
                   filtered |-> rest.filtered]

\* Step 1: the handler of the raised code, if there is one.
SpecificStep(t, err) ==
    IF err.Index \in DOMAIN t.specificHandlers
    THEN <<HandlerCall("specific", t.specificHandlers[err.Index], err)>>
    ELSE <<>>

\* Mutant of GroupStep: the group handlers are skipped when the raised code
\* has a specific handler.
GroupStep_UnlessSpecific(t, err) ==
    IF err.Index \in DOMAIN t.groupHandlers /\ err.Index \notin DOMAIN t.specificHandlers
    THEN [i \in 1..Len(t.groupHandlers[err.Index]) |->
              HandlerCall("group", t.groupHandlers[err.Index][i], err)]
    ELSE <<>>

\* Step 2: every group handler of the raised code, in slice order.
GroupStep(t, err) ==
    IF err.Index \in DOMAIN t.groupHandlers
    THEN [i \in 1..Len(t.groupHandlers[err.Index]) |->
              HandlerCall("group", t.groupHandlers[err.Index][i], err)]
    ELSE <<>>

\* Mutant of FallbackStep: the fallback handler runs whenever it is set.
FallbackStep_Always(t, err, hasSpecificHandler) ==
    IF t.fallbackHandler # Nil
    THEN <<HandlerCall("fallback", t.fallbackHandler, err)>>
    ELSE <<>>

\* Mutant of FallbackStep: a group handler of the raised code also
\* suppresses the fallback handler.
FallbackStep_UnlessGroup(t, err, hasSpecificHandler) ==
    IF ~hasSpecificHandler /\ err.Index \notin DOMAIN t.groupHandlers
       /\ t.fallbackHandler # Nil
    THEN <<HandlerCall("fallback", t.fallbackHandler, err)>>
    ELSE <<>>

\* Step 3: the fallback handler, when step 1 found no handler.
FallbackStep(t, err, hasSpecificHandler) ==
    IF ~hasSpecificHandler /\ t.fallbackHandler # Nil
    THEN <<HandlerCall("fallback", t.fallbackHandler, err)>>
    ELSE <<>>

\* Mutant of GlobalStep: the global handler is skipped when the raised code
\* has a specific handler.
GlobalStep_UnlessSpecific(t, err) ==
    IF t.globalHandler # Nil /\ err.Index \notin DOMAIN t.specificHandlers
    THEN <<HandlerCall("global", t.globalHandler, err)>>
    ELSE <<>>

\* Step 4: the global handler.
GlobalStep(t, err) ==
    IF t.globalHandler # Nil
    THEN <<HandlerCall("global", t.globalHandler, err)>>
    ELSE <<>>

\* Mutant of executeHandlers: the global handler does not set handled.
executeHandlers_GlobalNotHandled(t, err) ==
    LET f == FilterLoop(t.filters, 1, err)
    IN  IF f.filtered
        THEN [handled |-> FALSE, filtered |-> TRUE, calls |-> f.calls]
        ELSE LET hasSpecificHandler == err.Index \in DOMAIN t.specificHandlers
                 hcalls == SpecificStep(t, err) \o GroupStep(t, err)
                           \o FallbackStep(t, err, hasSpecificHandler)
             IN  [handled  |-> Len(hcalls) > 0,
                  filtered |-> FALSE,
                  calls    |-> f.calls \o hcalls \o GlobalStep(t, err)]

\* func (ts *Try) executeHandlers(err throw.Error) (handled bool, filtered bool)
\* calls: the filter and handler calls it makes, in order.
executeHandlers(t, err) ==
    LET f == FilterLoop(t.filters, 1, err)
    IN  IF f.filtered
        THEN [handled |-> FALSE, filtered |-> TRUE, calls |-> f.calls]
        ELSE LET hasSpecificHandler == err.Index \in DOMAIN t.specificHandlers
                 hcalls == SpecificStep(t, err) \o GroupStep(t, err)
                           \o FallbackStep(t, err, hasSpecificHandler)
                           \o GlobalStep(t, err)
             IN  [handled  |-> Len(hcalls) > 0,
                  filtered |-> FALSE,
                  calls    |-> f.calls \o hcalls]

\* Mutant of normalizeError: a throw.Error payload is wrapped like any other.
normalizeError_AlwaysWrap(recoverObj) ==
    Error(FallbackErrorIndex,
          "unexpected panic: " \o recoverObj.raw,
          GetPanicStack("recover"),
          EmptyMap)

\* Mutant of normalizeError: the wrapped error keeps the zero code.
normalizeError_ZeroCode(recoverObj) ==
    IF recoverObj.type = "Error"
    THEN recoverObj.err
    ELSE Error(0,
               "unexpected panic: " \o recoverObj.raw,
               GetPanicStack("recover"),
               EmptyMap)

\* func (ts *Try) normalizeError(recoverObj interface{}) throw.Error
normalizeError(recoverObj) ==
    IF recoverObj.type = "Error"
    THEN recoverObj.err
    ELSE Error(FallbackErrorIndex,
               "unexpected panic: " \o recoverObj.raw,
               GetPanicStack("recover"),
               EmptyMap)

\* The position in calls of the first handler call that panics, 0 if none:
\* the panic unwinds executeHandlers and the deferred function calling it,
\* so the calls after that position are not made.
FirstPanic(calls) ==
    IF \E i \in 1..Len(calls) :
           calls[i].ev = "handler" /\ HandlerResult(calls[i].fn, calls[i].err) # Returns
    THEN CHOOSE i \in 1..Len(calls) :
             /\ calls[i].ev = "handler"
             /\ HandlerResult(calls[i].fn, calls[i].err) # Returns
             /\ \A j \in 1..(i - 1) :
                    ~(calls[j].ev = "handler"
                      /\ HandlerResult(calls[j].fn, calls[j].err) # Returns)
    ELSE 0

\* Mutant of RecoverDefer: a panic of a handler is swallowed and the
\* resolution goes on.
RecoverDefer_SwallowHandlerPanic(t, recoverObj) ==
    IF recoverObj.type = "none"
    THEN [calls |-> <<>>, panic |-> Returns]
    ELSE IF recoverObj = Pass
         THEN [calls |-> <<>>, panic |-> Returns]
         ELSE LET err == normalizeError(recoverObj)
                  r   == executeHandlers(t, err)
              IN  [calls |-> r.calls,
                   panic |-> IF ~r.handled /\ ~r.filtered
                             THEN PanicError(err)
                             ELSE Returns]

\* Mutant of RecoverDefer: the re-raised error gets a freshly captured stack.
RecoverDefer_FreshStack(t, recoverObj) ==
    IF recoverObj.type = "none"
    THEN [calls |-> <<>>, panic |-> Returns]
    ELSE IF recoverObj = Pass
         THEN [calls |-> <<>>, panic |-> Returns]
         ELSE LET err == normalizeError(recoverObj)
                  r   == executeHandlers(t, err)
                  n   == FirstPanic(r.calls)
              IN  IF n > 0
                  THEN [calls |-> SubSeq(r.calls, 1, n),
                        panic |-> HandlerResult(r.calls[n].fn, r.calls[n].err)]
                  ELSE [calls |-> r.calls,
                        panic |-> IF ~r.handled /\ ~r.filtered
                                  THEN PanicError([err EXCEPT
                                           !.Stack = GetPanicStack("recover")])
                                  ELSE Returns]

\* Mutant of RecoverDefer: a filtered error is re-raised like an unhandled one.
RecoverDefer_IgnoreFiltered(t, recoverObj) ==
    IF recoverObj.type = "none"
    THEN [calls |-> <<>>, panic |-> Returns]
    ELSE IF recoverObj = Pass
         THEN [calls |-> <<>>, panic |-> Returns]
         ELSE LET err == normalizeError(recoverObj)
                  r   == executeHandlers(t, err)
              IN  [calls |-> r.calls,
                   panic |-> IF ~r.handled THEN PanicError(err) ELSE Returns]

\* Mutant of RecoverDefer: the result of recover() is not tested for nil.
RecoverDefer_NoNilCheck(t, recoverObj) ==
    IF recoverObj = Pass
    THEN [calls |-> <<>>, panic |-> Returns]
    ELSE LET err == normalizeError(recoverObj)
             r   == executeHandlers(t, err)
         IN  [calls |-> r.calls,
              panic |-> IF ~r.handled /\ ~r.filtered
                        THEN PanicError(err)
                        ELSE Returns]

\* Mutant of RecoverDefer: throw.Pass{} is not tested for.
RecoverDefer_NoPass(t, recoverObj) ==
    IF recoverObj.type = "none"
    THEN [calls |-> <<>>, panic |-> Returns]
    ELSE LET err == normalizeError(recoverObj)
             r   == executeHandlers(t, err)
         IN  [calls |-> r.calls,
              panic |-> IF ~r.handled /\ ~r.filtered
                        THEN PanicError(err)
                        ELSE Returns]

\* The deferred recover function of Try.Finally, run after ts.tryFunc()
\* ended with recoverObj: the calls it makes and the payload it panics with.
RecoverDefer(t, recoverObj) ==
    IF recoverObj.type = "none"
    THEN [calls |-> <<>>, panic |-> Returns]
    ELSE IF recoverObj = Pass
         THEN [calls |-> <<>>, panic |-> Returns]
         ELSE LET err == normalizeError(recoverObj)
                  r   == executeHandlers(t, err)
                  n   == FirstPanic(r.calls)
              IN  IF n > 0
                  THEN [calls |-> SubSeq(r.calls, 1, n),
                        panic |-> HandlerResult(r.calls[n].fn, r.calls[n].err)]
                  ELSE [calls |-> r.calls,
                        panic |-> IF ~r.handled /\ ~r.filtered
                                  THEN PanicError(err)
                                  ELSE Returns]

\* The first deferred function of Try.Finally: it runs last.
FinallyDefer(finally) ==
    IF finally # Nil THEN <<Event("finally", "", finally, ZeroError)>> ELSE <<>>

\* Mutant of Try_Finally: finally() is called after the recover function
\* returned instead of being deferred, so a re-raise skips it.
Try_Finally_NotDeferred(t, finally) ==
    LET recoverObj == t.tryFunc
        r == RecoverDefer(t, recoverObj)
    IN  [log     |-> <<Event("block", "", "tryFunc", ZeroError)>>
                     \o r.calls
                     \o (IF r.panic = Returns THEN FinallyDefer(finally) ELSE <<>>),
         outcome |-> r.panic]

\* func (ts *Try) Finally(finally func()): the calls made, in order, and how
\* the call ends (outcome.type = "none": it returns to its caller).
Try_Finally(t, finally) ==
    LET recoverObj == t.tryFunc
        r == RecoverDefer(t, recoverObj)
    IN  [log     |-> <<Event("block", "", "tryFunc", ZeroError)>>
                     \o r.calls \o FinallyDefer(finally),
         outcome |-> r.panic]

\* func (ts *Try) Do()
Try_Do(t) == Try_Finally(t, Nil)

\* ------------------------------------------------------------------------
\* The state machine: Run(block).<registrations>.Finally(f) / .Do()
\* ------------------------------------------------------------------------

VARIABLES
    pc,         \* "chain": registrations may follow; "done": executed
    ts,         \* the *Try built by Run
    nregs,      \* number of registration calls made
    groupRegs,  \* the arguments of the Try.Group calls made, in call order
    finalizer,  \* the argument of the execution call (Nil for Do)
    log,        \* the calls made by the execution call, in order
    outcome,    \* how the execution call ended: Returns or a panic payload
    chain,      \* the registration calls made, in call order (SpecChain)
    enclosing,  \* the registration chains of the engines whose protected
                \* block holds this execution call, innermost first
    outerRuns,  \* the execution calls of the enclosing engines that ended
    heap,       \* the allocated context maps, by reference (SpecCtx)
    held,       \* the throw.Error values the program holds (SpecCtx)
    lastOp,     \* the last WithContext / WithContextMap call (SpecCtx)
    helper,     \* the last call of a raise helper of package throw
    helperResult \* what that call ended with and returned (SpecThrow)

\* The state of the calls around and beside the engine.
nestVars == <<enclosing, outerRuns>>

ctxVars == <<heap, held, lastOp>>

throwVars == <<helper, helperResult>>

engineVars == <<pc, ts, nregs, groupRegs, finalizer, log, outcome, chain>>

vars == <<pc, ts, nregs, groupRegs, finalizer, log, outcome, chain,
          enclosing, outerRuns, heap, held, lastOp, helper, helperResult>>

\* No WithContext call and no raise helper call has been made.
NoOp == [op |-> "none", recv |-> 0, entries |-> {}, before |-> <<>>]

NoHelper ==
    [fn |-> "none", index |-> 0, value |-> FALSE, message |-> "", err |-> NilError,
     key |-> "", ctxValue |-> 0]

NoResult == ReturnsNothing

\* No engine encloses the execution call.
NestIdle == enclosing = <<>> /\ outerRuns = <<>>

CtxIdle == heap = <<>> /\ held = <<>> /\ lastOp = NoOp

ThrowIdle == helper = NoHelper /\ helperResult = NoResult

\* The engine before the first registration call.
EngineIdle ==
    /\ pc = "chain"
    /\ nregs = 0
    /\ groupRegs = <<>>
    /\ finalizer = Nil
    /\ log = <<>>
    /\ outcome = Returns
    /\ chain = <<>>

Init ==
    /\ ts \in {Run(b) : b \in Blocks}
    /\ EngineIdle
    /\ NestIdle
    /\ CtxIdle
    /\ ThrowIdle

Register(newTs) ==
    /\ pc = "chain"
    /\ nregs < MaxRegs
    /\ ts' = newTs
    /\ nregs' = nregs + 1
    /\ UNCHANGED <<pc, finalizer, log, outcome, chain>>
    /\ UNCHANGED <<nestVars, ctxVars, throwVars>>

Index ==
    \E index \in Codes, handler \in Handlers \cup {Nil} :
        /\ Register(Try_Index(ts, index, handler))
        /\ UNCHANGED groupRegs

Catch ==
    \E handler \in Handlers \cup {Nil} :
        /\ Register(Try_Catch(ts, handler))
        /\ UNCHANGED groupRegs

Unknown ==
    \E handler \in Handlers \cup {Nil} :
        /\ Register(Try_Unknown(ts, handler))
        /\ UNCHANGED groupRegs

Group ==
    \E group \in Groups, handler \in Handlers \cup {Nil} :
        /\ Register(Try_Group(ts, group, handler))
        /\ groupRegs' = Append(groupRegs, <<group, handler>>)

Filter ==
    \E filter \in Filters \cup {Nil} :
        /\ Register(Try_Filter(ts, filter))
        /\ UNCHANGED groupRegs

Execute(finally, r) ==
    /\ pc = "chain"
    /\ pc' = "done"
    /\ finalizer' = finally
    /\ log' = r.log
    /\ outcome' = r.outcome
    /\ UNCHANGED <<ts, nregs, groupRegs, chain>>
    /\ UNCHANGED <<nestVars, ctxVars, throwVars>>

Finally ==
    \E finally \in Finalizers \cup {Nil} :
        Execute(finally, Try_Finally(ts, finally))

Do == Execute(Nil, Try_Do(ts))

Next == Index \/ Catch \/ Unknown \/ Group \/ Filter \/ Finally \/ Do

Spec == Init /\ [][Next]_vars

\* ------------------------------------------------------------------------
\* The same machine with the chain of registration calls recorded and with
\* a handler that raises among the registered handlers
\* ------------------------------------------------------------------------

\* One chained registration call.
Call(op, index, group, fn) == [op |-> op, index |-> index, group |-> group, fn |-> fn]

\* The registration calls of a chain.
ChainCalls ==
    {Call("Index", 404, <<>>, fn) : fn \in {"h1", "h2", "hThrow", Nil}}
    \cup {Call("Index", 500, <<>>, "h1"), Call("Index", 0, <<>>, "h1")}
    \cup {Call("Catch", 0, <<>>, fn) : fn \in {"h1", "h2", "hThrow", Nil}}
    \cup {Call("Unknown", 0, <<>>, fn) : fn \in {"h1", "h2", Nil}}
    \cup {Call("Group", 0, <<404>>, "h1"), Call("Group", 0, <<404>>, "hThrow"),
          Call("Group", 0, <<>>, "h2"), Call("Group", 0, <<404, 500>>, Nil)}
    \cup {Call("Filter", 0, <<>>, fn) : fn \in {"allowAll", Nil}}

\* The protected blocks of a chain.
ChainBlocks ==
    {Returns, PanicOther("boom"), throw_Index(404, "msg"), throw_Index(500, "msg")}

\* The engine after the call c on the engine t.
ApplyCall(t, c) ==
    CASE c.op = "Index"   -> Try_Index(t, c.index, c.fn)
      [] c.op = "Catch"   -> Try_Catch(t, c.fn)
      [] c.op = "Unknown" -> Try_Unknown(t, c.fn)
      [] c.op = "Group"   -> Try_Group(t, c.group, c.fn)
      [] c.op = "Filter"  -> Try_Filter(t, c.fn)

\* The engine built by Run(b) followed by the calls of cs, in order.
RECURSIVE Replay(_, _)
Replay(b, cs) ==
    IF cs = <<>>
    THEN Run(b)
    ELSE ApplyCall(Replay(b, SubSeq(cs, 1, Len(cs) - 1)), cs[Len(cs)])

InitChain == Init /\ ts.tryFunc \in ChainBlocks

Chain ==
    \E c \in ChainCalls :
        /\ pc = "chain"
        /\ nregs < MaxRegs
        /\ ts' = ApplyCall(ts, c)
        /\ nregs' = nregs + 1
        /\ chain' = Append(chain, c)
        /\ groupRegs' = IF c.op = "Group"
                        THEN Append(groupRegs, <<c.group, c.fn>>)
                        ELSE groupRegs
        /\ UNCHANGED <<pc, finalizer, log, outcome>>
        /\ UNCHANGED <<nestVars, ctxVars, throwVars>>

NextChain == Chain \/ Finally \/ Do

SpecChain == InitChain /\ [][NextChain]_vars

\* ------------------------------------------------------------------------
\* Nested engines: the execution call of `ts` is made inside the protected
\* block of another engine, whose execution call may itself be nested
\* ------------------------------------------------------------------------

\* Depth of the nesting around the innermost engine.
MaxNest == 2

\* The registration chains of the innermost engine.
InnerChains ==
    {<<>>,
     <<Call("Filter", 0, <<>>, "allowAll")>>,
     <<Call("Filter", 0, <<>>, "only4xx")>>,
     <<Call("Index", 500, <<>>, "h1")>>,
     <<Call("Catch", 0, <<>>, "h1")>>}

\* The registration chains of an enclosing engine.
OuterChains ==
    {<<>>,
     <<Call("Filter", 0, <<>>, "allowAll")>>,
     <<Call("Filter", 0, <<>>, "hasUserID")>>,
     <<Call("Index", 500, <<>>, "h1")>>,
     <<Call("Group", 0, <<404>>, "h2")>>,
     <<Call("Unknown", 0, <<>>, "h1")>>,
     <<Call("Index", 404, <<>>, "h1"), Call("Catch", 0, <<>>, "h2")>>}

\* The sequences of length 1..n over the set S.
RECURSIVE SeqsUpTo(_, _)
SeqsUpTo(S, n) ==
    IF n = 0
    THEN {}
    ELSE LET shorter == SeqsUpTo(S, n - 1)
         IN  {<<x>> : x \in S} \cup shorter
             \cup {Append(q, x) : q \in shorter, x \in S}

InitNested ==
    /\ ts \in {Replay(b, cs) : b \in Blocks, cs \in InnerChains}
    /\ EngineIdle
    /\ enclosing \in SeqsUpTo(OuterChains, MaxNest)
    /\ outerRuns = <<>>
    /\ CtxIdle
    /\ ThrowIdle

\* What the execution call at nesting level k ended with (0: innermost).
LevelOutcome(k) == IF k = 0 THEN outcome ELSE outerRuns[k].outcome

\* The engine at nesting level k: its protected block ends with what the
\* execution call inside it ended with.
LevelEngine(k) == Replay(LevelOutcome(k - 1), enclosing[k])

\* The execution call of the next enclosing engine ends: the execution call
\* in its protected block has returned or raised.
Unwind ==
    /\ pc = "done"
    /\ Len(outerRuns) < Len(enclosing)
    /\ \E finally \in Finalizers \cup {Nil} :
           outerRuns' = Append(outerRuns,
                               Try_Finally(LevelEngine(Len(outerRuns) + 1), finally))
    /\ UNCHANGED <<engineVars, enclosing, ctxVars, throwVars>>

NextNested == Finally \/ Do \/ Unwind

SpecNested == InitNested /\ [][NextNested]_vars

\* ------------------------------------------------------------------------
\* The context map of a throw.Error as Go holds it: the Context field of an
\* Error value is a reference to a map, and copying the Error value (a call
\* with a value receiver, an argument, a return value) copies the reference
\* ------------------------------------------------------------------------

\* Number of throw.Error values the program holds.
MaxHeld == 3

\* The nil map reference.
NilRef == 0

\* Keys, values and map arguments of the context operations.
CtxKeys == {"a", "b"}

CtxValues == {1, 2}

CtxMaps == {{}, {<<"a", 2>>}, {<<"a", 1>>, <<"b", 2>>}}

\* m[key] = value on the entries of a map.
MapStore(kv, key, value) == {p \in kv : p[1] # key} \cup {<<key, value>>}

\* for k, v := range ctx { m[k] = v }
RECURSIVE MapStoreAll(_, _)
MapStoreAll(kv, ctx) ==
    IF ctx = {}
    THEN kv
    ELSE LET p == CHOOSE q \in ctx : TRUE
         IN  MapStoreAll(MapStore(kv, p[1], p[2]), ctx \ {p})

\* if e.Context == nil { e.Context = make(map[string]interface{}) }: the
\* heap and the receiver copy e after these lines.
EnsureContext(h, e) ==
    IF e.Context = NilRef
    THEN [heap |-> Append(h, {}), e |-> [e EXCEPT !.Context = Len(h) + 1]]
    ELSE [heap |-> h, e |-> e]

\* Mutant of WithContextMap: an entry whose key is present is not overwritten.
WithContextMap_NoOverwrite(h, e, ctx) ==
    LET a == EnsureContext(h, e)
        r == a.e.Context
        fresh == {p \in ctx : \A q \in a.heap[r] : q[1] # p[1]}
    IN  [heap |-> [a.heap EXCEPT ![r] = MapStoreAll(@, fresh)], ret |-> a.e]

\* func (e Error) WithContext(key string, value interface{}) Error
WithContext(h, e, key, value) ==
    LET a == EnsureContext(h, e)
    IN  [heap |-> [a.heap EXCEPT ![a.e.Context] = MapStore(@, key, value)],
         ret  |-> a.e]

\* func (e Error) WithContextMap(ctx map[string]interface{}) Error
WithContextMap(h, e, ctx) ==
    LET a == EnsureContext(h, e)
    IN  [heap |-> [a.heap EXCEPT ![a.e.Context] = MapStoreAll(@, ctx)],
         ret  |-> a.e]

\* The context observed through the Error value e: nil or the entries of
\* the map it refers to.
ContextOf(h, e) ==
    IF e.Context = NilRef THEN NilMap ELSE [allocated |-> TRUE, kv |-> h[e.Context]]

\* The Error value e with its context read through its reference.
View(h, e) == Error(e.Index, e.Message, e.Stack, ContextOf(h, e))

\* The contexts observed through the held values.
HeldContexts(h, es) == [i \in 1..Len(es) |-> ContextOf(h, es[i])]

InitCtx ==
    /\ ts = Run(Returns)
    /\ EngineIdle
    /\ NestIdle
    /\ ThrowIdle
    /\ lastOp = NoOp
    /\ \/ /\ heap = <<>>
          /\ held = <<Error(500, "msg", "stack", NilRef)>>
       \/ /\ heap \in {<<{}>>, <<{<<"a", 1>>}>>}
          /\ held = <<Error(500, "msg", "stack", 1)>>

\* r := held[recv].<op>(...): the returned value is held too.
CtxCall(op, recv, entries, r) ==
    /\ Len(held) < MaxHeld
    /\ heap' = r.heap
    /\ held' = Append(held, r.ret)
    /\ lastOp' = [op |-> op, recv |-> recv, entries |-> entries,
                  before |-> HeldContexts(heap, held)]
    /\ UNCHANGED <<engineVars, ts, nestVars, throwVars>>

WithContextCall ==
    \E recv \in 1..Len(held), key \in CtxKeys, value \in CtxValues :
        CtxCall("WithContext", recv, {<<key, value>>},
                WithContext(heap, held[recv], key, value))

WithContextMapCall ==
    \E recv \in 1..Len(held), ctx \in CtxMaps :
        CtxCall("WithContextMap", recv, ctx,
                WithContextMap(heap, held[recv], ctx))

NextCtx == WithContextCall \/ WithContextMapCall

SpecCtx == InitCtx /\ [][NextCtx]_vars

\* ------------------------------------------------------------------------
\* Calls of the conditional raise helpers of package throw
\* ------------------------------------------------------------------------

\* Arguments of the helpers.
HelperIndexes == {0, FallbackErrorIndex, 404}

HelperMessages == {"", "msg"}

HelperErrors == {NilError, errors_New(""), errors_New("boom")}

HelperKeys == {"userID"}

HelperCtxValues == {1, 2}

InitThrow ==
    /\ ts = Run(Returns)
    /\ EngineIdle
    /\ NestIdle
    /\ CtxIdle
    /\ ThrowIdle

\* throw.<fn>(...) is called with the arguments args and ends with r.
HelperCall(fn, args, r) ==
    /\ helper' = [args EXCEPT !.fn = fn]
    /\ helperResult' = r
    /\ UNCHANGED <<engineVars, nestVars, ctxVars>>

Err ==
    \E err \in HelperErrors :
        HelperCall("Err", [NoHelper EXCEPT !.err = err], throw_Err(err))

ErrWithContext ==
    \E err \in HelperErrors, key \in HelperKeys, ctxValue \in HelperCtxValues :
        HelperCall("ErrWithContext",
                   [NoHelper EXCEPT !.err = err, !.key = key, !.ctxValue = ctxValue],
                   throw_ErrWithContext(err, key, ctxValue))

True ==
    \E value \in BOOLEAN, message \in HelperMessages :
        HelperCall("True", [NoHelper EXCEPT !.value = value, !.message = message],
                   throw_True(value, message))

TrueWithContext ==
    \E value \in BOOLEAN, message \in HelperMessages,
       key \in HelperKeys, ctxValue \in HelperCtxValues :
        HelperCall("TrueWithContext",
                   [NoHelper EXCEPT !.value = value, !.message = message,
                                    !.key = key, !.ctxValue = ctxValue],
                   throw_TrueWithContext(value, message, key, ctxValue))

False ==
    \E value \in BOOLEAN, message \in HelperMessages :
        HelperCall("False", [NoHelper EXCEPT !.value = value, !.message = message],
                   throw_False(value, message))

FalseWithContext ==
    \E value \in BOOLEAN, message \in HelperMessages,
       key \in HelperKeys, ctxValue \in HelperCtxValues :
        HelperCall("FalseWithContext",
                   [NoHelper EXCEPT !.value = value, !.message = message,
                                    !.key = key, !.ctxValue = ctxValue],
                   throw_FalseWithContext(value, message, key, ctxValue))

TrueIndex ==
    \E index \in HelperIndexes, value \in BOOLEAN, message \in HelperMessages :
        HelperCall("TrueIndex",
                   [NoHelper EXCEPT !.index = index, !.value = value, !.message = message],
                   throw_TrueIndex(index, value, message))

TrueIndexWithContext ==
    \E index \in HelperIndexes, value \in BOOLEAN, message \in HelperMessages,
       key \in HelperKeys, ctxValue \in HelperCtxValues :
        HelperCall("TrueIndexWithContext",
                   [NoHelper EXCEPT !.index = index, !.value = value, !.message = message,
                                    !.key = key, !.ctxValue = ctxValue],
                   throw_TrueIndexWithContext(index, value, message, key, ctxValue))

FalseIndex ==
    \E index \in HelperIndexes, value \in BOOLEAN, message \in HelperMessages :
        HelperCall("FalseIndex",
                   [NoHelper EXCEPT !.index = index, !.value = value, !.message = message],
                   throw_FalseIndex(index, value, message))

FalseIndexWithContext ==
    \E index \in HelperIndexes, value \in BOOLEAN, message \in HelperMessages,
       key \in HelperKeys, ctxValue \in HelperCtxValues :
        HelperCall("FalseIndexWithContext",
                   [NoHelper EXCEPT !.index = index, !.value = value, !.message = message,
                                    !.key = key, !.ctxValue = ctxValue],
                   throw_FalseIndexWithContext(index, value, message, key, ctxValue))

FuncErr ==
    \E fn \in HelperErrors :
        HelperCall("FuncErr", [NoHelper EXCEPT !.err = fn], throw_FuncErr(fn))

FuncErrWithContext ==
    \E fn \in HelperErrors, key \in HelperKeys, ctxValue \in HelperCtxValues :
        HelperCall("FuncErrWithContext",
                   [NoHelper EXCEPT !.err = fn, !.key = key, !.ctxValue = ctxValue],
                   throw_FuncErrWithContext(fn, key, ctxValue))

ValueErr ==
    \E value \in BOOLEAN, err \in HelperErrors :
        HelperCall("ValueErr", [NoHelper EXCEPT !.value = value, !.err = err],
                   throw_ValueErr(value, err))

ValueErrWithContext ==
    \E value \in BOOLEAN, err \in HelperErrors,
       key \in HelperKeys, ctxValue \in HelperCtxValues :
        HelperCall("ValueErrWithContext",
                   [NoHelper EXCEPT !.value = value, !.err = err,
                                    !.key = key, !.ctxValue = ctxValue],
                   throw_ValueErrWithContext(value, err, key, ctxValue))

IndexErr ==
    \E index \in HelperIndexes, err \in HelperErrors :
        HelperCall("IndexErr", [NoHelper EXCEPT !.index = index, !.err = err],
                   throw_IndexErr(index, err))

IndexErrWithContext ==
    \E index \in HelperIndexes, err \in HelperErrors,
       key \in HelperKeys, ctxValue \in HelperCtxValues :
        HelperCall("IndexErrWithContext",
                   [NoHelper EXCEPT !.index = index, !.err = err,
                                    !.key = key, !.ctxValue = ctxValue],
                   throw_IndexErrWithContext(index, err, key, ctxValue))

NextThrow ==
    \/ Err \/ ErrWithContext
    \/ True \/ TrueWithContext
    \/ False \/ FalseWithContext
    \/ TrueIndex \/ TrueIndexWithContext
    \/ FalseIndex \/ FalseIndexWithContext
    \/ FuncErr \/ FuncErrWithContext
    \/ ValueErr \/ ValueErrWithContext
    \/ IndexErr \/ IndexErrWithContext

SpecThrow == InitThrow /\ [][NextThrow]_vars

\* ------------------------------------------------------------------------
\* Vocabulary of the properties
\* ------------------------------------------------------------------------

Done == pc = "done"

\* What the protected block ended with.
RecoverObj == ts.tryFunc

\* The block raised a payload the engine has to resolve.
Raised == RecoverObj.type \in {"Error", "other"}

\* The block raised a classified error (a throw.Error value).
RaisedClassified == RecoverObj.type = "Error"

\* The error the engine resolves: the classified error as raised, or the
\* error synthesized for an unclassified payload.
RaisedErr ==
    IF RecoverObj.type = "Error"
    THEN RecoverObj.err
    ELSE Error(FallbackErrorIndex, "unexpected panic: " \o RecoverObj.raw,
               "stack@recover", EmptyMap)

\* No registered filter returns false for the raised error.
FiltersPass == \A i \in 1..Len(ts.filters) : FilterResult(ts.filters[i], RaisedErr)

\* The calls of the log that are handler calls, filter calls, finalizer calls.
HandlerCalls == SelectSeq(log, LAMBDA e : e.ev = "handler")

FilterCalls == SelectSeq(log, LAMBDA e : e.ev = "filter")

FinallyCalls == SelectSeq(log, LAMBDA e : e.ev = "finally")

\* The handler calls made by one step of the resolution.
CallsOf(kind) == SelectSeq(log, LAMBDA e : e.ev = "handler" /\ e.kind = kind)

\* The functions called by a sequence of log entries.
Fns(calls) == [i \in 1..Len(calls) |-> calls[i].fn]

Range(seq) == {seq[i] : i \in 1..Len(seq)}

\* The execution call returned normally to its caller.
ReturnedNormally == Done /\ outcome = Returns

\* The execution call raised to its caller.
Reraised == Done /\ outcome # Returns

\* The handlers passed with a non-nil handler to the Try.Group calls whose
\* group contains code c, one per call, in call order.
GroupRegistered(c) ==
    LET sel == SelectSeq(groupRegs, LAMBDA r : r[2] # Nil /\ c \in Range(r[1]))
    IN  [i \in 1..Len(sel) |-> sel[i][2]]

\* a is a subsequence of b: the entries of a occur in b in the same order.
RECURSIVE IsSubseq(_, _)
IsSubseq(a, b) ==
    IF a = <<>> THEN TRUE
    ELSE IF b = <<>> THEN FALSE
    ELSE IF Head(a) = Head(b) THEN IsSubseq(Tail(a), Tail(b))
    ELSE IsSubseq(a, Tail(b))

\* ------------------------------------------------------------------------
\* Properties
\* ------------------------------------------------------------------------

\* C1: for a code c other than 0 and FallbackErrorIndex with a specific
\* handler h registered, a raised classified error of code c that no filter
\* rejects makes the execution call invoke h exactly once, with that error,
\* and the fallback handler is not invoked, registered or not.
C1_SpecificOnceNoFallback ==
    (/\ Done
     /\ RaisedClassified
     /\ RecoverObj.err.Index \notin {0, FallbackErrorIndex}
     /\ RecoverObj.err.Index \in DOMAIN ts.specificHandlers
     /\ FiltersPass)
    => /\ CallsOf("specific")
            = <<HandlerCall("specific",
                            ts.specificHandlers[RecoverObj.err.Index],
                            RecoverObj.err)>>
       /\ CallsOf("fallback") = <<>>

\* C1 witness: a fallback handler is registered and the specific handler of
\* the raised code has run.
C1_Witness ==
    /\ Done
    /\ RaisedClassified
    /\ RecoverObj.err.Index \in DOMAIN ts.specificHandlers
    /\ ts.fallbackHandler # Nil
    /\ FiltersPass
    /\ Len(CallsOf("specific")) = 1

\* C2 as stated: for a raised error of any code c that no filter rejects,
\* every handler registered by a Try.Group call whose group contains c is
\* invoked, in the order of the Try.Group calls.
C2_Original ==
    (Done /\ Raised /\ FiltersPass)
    => IsSubseq(GroupRegistered(RaisedErr.Index), Fns(CallsOf("group")))

\* C2 amended: for a raised error of a code c other than 0 and
\* FallbackErrorIndex that no filter rejects, every handler registered by a
\* Try.Group call whose group contains c is invoked with that error, in the
\* order of the Try.Group calls, whether or not a specific handler ran.
C2_GroupHandlersAllRun ==
    (/\ Done
     /\ Raised
     /\ FiltersPass
     /\ RaisedErr.Index \notin {0, FallbackErrorIndex})
    => /\ IsSubseq(GroupRegistered(RaisedErr.Index), Fns(CallsOf("group")))
       /\ \A i \in 1..Len(CallsOf("group")) : CallsOf("group")[i].err = RaisedErr

\* C2 witness: a specific handler ran and two Try.Group calls registered
\* handlers that ran too.
C2_Witness ==
    /\ Done
    /\ Raised
    /\ FiltersPass
    /\ Len(CallsOf("specific")) = 1
    /\ Len(GroupRegistered(RaisedErr.Index)) = 2
    /\ Fns(CallsOf("group")) = <<"h2", "h1">>

\* C3: when a registered filter returns false for the raised error, no
\* handler of any kind runs and the execution call returns normally.
C3_FilterSuppresses ==
    (Done /\ Raised /\ ~FiltersPass)
    => /\ HandlerCalls = <<>>
       /\ outcome = Returns

\* C3 witness: a filter rejected the error although a handler of each of
\* two kinds was registered.
C3_Witness ==
    /\ Done
    /\ Raised
    /\ ~FiltersPass
    /\ RaisedErr.Index \in DOMAIN ts.specificHandlers
    /\ ts.globalHandler # Nil
    /\ outcome = Returns

\* C4: the execution call raises to its caller exactly when the block raised
\* a payload other than throw.Pass{}, no filter returned false and no handler
\* was invoked; what it raises is the normalized error.  With only a specific
\* handler for 404, raising 500 re-raises code 500; with a global or a
\* fallback handler registered it never re-raises.
C4_ReraiseIff ==
    Done =>
      /\ (outcome # Returns) <=> (Raised /\ FiltersPass /\ HandlerCalls = <<>>)
      /\ (outcome # Returns) => outcome = PanicError(RaisedErr)
      /\ (ts.globalHandler # Nil \/ ts.fallbackHandler # Nil) => outcome = Returns
      /\ (/\ DOMAIN ts.specificHandlers = {404}
          /\ DOMAIN ts.groupHandlers = {}
          /\ ts.globalHandler = Nil
          /\ ts.fallbackHandler = Nil
          /\ ts.filters = <<>>
          /\ RaisedClassified
          /\ RecoverObj.err.Index = 500)
         => (outcome.type = "Error" /\ outcome.err.Index = 500)

\* C4 witness: only a specific handler for 404 is registered and the block
\* raised code 500, which is re-raised.
C4_Witness ==
    /\ Done
    /\ DOMAIN ts.specificHandlers = {404}
    /\ DOMAIN ts.groupHandlers = {}
    /\ ts.globalHandler = Nil
    /\ ts.fallbackHandler = Nil
    /\ RaisedClassified
    /\ RecoverObj.err.Index = 500
    /\ outcome.type = "Error"

\* C5: with no specific, group, fallback or global handler and no filter
\* registered, a classified error raised by the block is raised by the
\* execution call as a throw.Error with the same code, message and context.
C5_UnhandledPropagatesEqual ==
    (/\ Done
     /\ RaisedClassified
     /\ DOMAIN ts.specificHandlers = {}
     /\ DOMAIN ts.groupHandlers = {}
     /\ ts.globalHandler = Nil
     /\ ts.fallbackHandler = Nil
     /\ ts.filters = <<>>)
    => /\ outcome.type = "Error"
       /\ outcome.err.Index = RecoverObj.err.Index
       /\ outcome.err.Message = RecoverObj.err.Message
       /\ outcome.err.Context = RecoverObj.err.Context

\* C5 witness: an engine with nothing registered re-raised an error that
\* carries a context entry.
C5_Witness ==
    /\ Done
    /\ RaisedClassified
    /\ DOMAIN ts.specificHandlers = {}
    /\ DOMAIN ts.groupHandlers = {}
    /\ ts.globalHandler = Nil
    /\ ts.fallbackHandler = Nil
    /\ ts.filters = <<>>
    /\ RecoverObj.err.Context = MapLit("userID", 123)
    /\ outcome.type = "Error"

\* C6: a finalizer passed to Finally runs exactly once per execution call,
\* after the block and after every filter and handler call, on every path
\* (normal return, throw.Pass{}, handled, filtered, re-raised).
C6_FinalizerOnceLast ==
    (Done /\ finalizer # Nil)
    => /\ Len(FinallyCalls) = 1
       /\ log[Len(log)] = Event("finally", "", finalizer, ZeroError)
       /\ log[1].ev = "block"

\* C6 witness: the error was re-raised after a filter was evaluated, and the
\* finalizer has run.
C6_Witness ==
    /\ Done
    /\ finalizer # Nil
    /\ outcome.type = "Error"
    /\ Len(FilterCalls) > 0
    /\ Len(FinallyCalls) = 1

C8_FallbackIff ==
    Done =>
      /\ (CallsOf("fallback") # <<>>)
           <=> (/\ Raised
                /\ FiltersPass
                /\ ts.fallbackHandler # Nil
                /\ RaisedErr.Index \notin DOMAIN ts.specificHandlers)
      /\ (CallsOf("fallback") # <<>>)
           => CallsOf("fallback") = <<HandlerCall("fallback", ts.fallbackHandler, RaisedErr)>>

\* C8 witness: the fallback handler ran although a group handler of the
\* raised code ran and a specific handler of another code is registered.
C8_Witness ==
    /\ Done
    /\ Raised
    /\ Len(CallsOf("fallback")) = 1
    /\ Len(CallsOf("group")) > 0
    /\ DOMAIN ts.specificHandlers # {}

\* C9: when the block raises throw.Pass{}, the execution call returns
\* normally, no filter is evaluated and no handler is invoked.
C9_PassSwallowed ==
    (Done /\ RecoverObj = Pass)
    => /\ outcome = Returns
       /\ FilterCalls = <<>>
       /\ HandlerCalls = <<>>

\* C9 witness: throw.Pass{} was raised under an engine with a filter, a
\* fallback handler and a global handler registered.
C9_Witness ==
    /\ Done
    /\ RecoverObj = Pass
    /\ ts.filters # <<>>
    /\ ts.fallbackHandler # Nil
    /\ ts.globalHandler # Nil

\* The part of C10 that needs no filter: every filter and handler called for
\* an unclassified payload gets an error with code FallbackErrorIndex and an
\* empty context, and no specific or group handler is invoked.
C10_Synthesized ==
    /\ \A i \in 1..Len(log) :
           log[i].ev \in {"filter", "handler"}
           => /\ log[i].err.Index = FallbackErrorIndex
              /\ log[i].err.Context = EmptyMap
    /\ CallsOf("specific") = <<>>
    /\ CallsOf("group") = <<>>

\* C10 as stated: for a payload that is neither a throw.Error nor
\* throw.Pass{}, a registered fallback handler is invoked with the
\* synthesized error and a registered global handler is invoked with it.
C10_Original ==
    (Done /\ RecoverObj.type = "other")
    => /\ C10_Synthesized
       /\ ts.fallbackHandler # Nil => Len(CallsOf("fallback")) = 1
       /\ ts.globalHandler # Nil => Len(CallsOf("global")) = 1

\* C10 amended: the same, provided no registered filter returns false for
\* the synthesized error; whether or not one does, the error dispatched has
\* code FallbackErrorIndex and an empty context and no specific or group
\* handler is invoked.
C10_UnclassifiedToFallback ==
    (Done /\ RecoverObj.type = "other")
    => /\ C10_Synthesized
       /\ (FiltersPass /\ ts.fallbackHandler # Nil) => Len(CallsOf("fallback")) = 1
       /\ (FiltersPass /\ ts.globalHandler # Nil) => Len(CallsOf("global")) = 1

\* C10 witness: an unclassified payload passed a filter and reached both the
\* fallback and the global handler.
C10_Witness ==
    /\ Done
    /\ RecoverObj.type = "other"
    /\ ts.filters # <<>>
    /\ Len(CallsOf("fallback")) = 1
    /\ Len(CallsOf("global")) = 1

\* The number of leading filters that are evaluated for err: all of them,
\* or those up to and including the first that returns false.
EvaluatedFilters(filters, err) ==
    IF \E i \in 1..Len(filters) : ~FilterResult(filters[i], err)
    THEN CHOOSE i \in 1..Len(filters) :
             /\ ~FilterResult(filters[i], err)
             /\ \A j \in 1..(i - 1) : FilterResult(filters[j], err)
    ELSE Len(filters)

\* C11: the filters are evaluated on the raised error in registration order
\* before any handler runs; when filter #1 returns true and filter #2
\* returns false, filter #2 has been evaluated and no handler runs; when
\* every filter returns true, all have been evaluated and the matching
\* handlers run.
C11_FiltersInOrder ==
    (Done /\ Raised)
    => /\ Fns(FilterCalls)
            = SubSeq(ts.filters, 1, EvaluatedFilters(ts.filters, RaisedErr))
       /\ \A i \in 1..Len(FilterCalls) : FilterCalls[i].err = RaisedErr
       /\ \A i, j \in 1..Len(log) :
              (log[i].ev = "filter" /\ log[j].ev = "handler") => i < j
       /\ ~FiltersPass => HandlerCalls = <<>>
       /\ FiltersPass
          => /\ Fns(FilterCalls) = ts.filters
             /\ RaisedErr.Index \in DOMAIN ts.specificHandlers
                => Len(CallsOf("specific")) = 1
             /\ RaisedErr.Index \in DOMAIN ts.groupHandlers
                => Len(CallsOf("group")) > 0
             /\ ts.globalHandler # Nil => Len(CallsOf("global")) = 1

\* C11 witness: filter #1 returned true, filter #2 returned false and was
\* evaluated, and the registered handler did not run.
C11_Witness ==
    /\ Done
    /\ Raised
    /\ Len(ts.filters) = 2
    /\ FilterResult(ts.filters[1], RaisedErr)
    /\ ~FilterResult(ts.filters[2], RaisedErr)
    /\ Len(FilterCalls) = 2
    /\ ts.globalHandler # Nil
    /\ HandlerCalls = <<>>

\* C12: no specific and no group handler is ever stored under code 0 or
\* FallbackErrorIndex, while the other codes of a group passed to Try.Group
\* are registered; so an error raised with code 0 or FallbackErrorIndex
\* invokes no specific or group handler and is re-raised unless a fallback
\* or global handler is registered or a filter rejects it.
C12_ReservedCodesNeverRegistered ==
    /\ DOMAIN ts.specificHandlers \cap {0, FallbackErrorIndex} = {}
    /\ DOMAIN ts.groupHandlers \cap {0, FallbackErrorIndex} = {}
    /\ \A i \in 1..Len(groupRegs) :
           groupRegs[i][2] # Nil
           => \A c \in Range(groupRegs[i][1]) \ {0, FallbackErrorIndex} :
                  /\ c \in DOMAIN ts.groupHandlers
                  /\ groupRegs[i][2] \in Range(ts.groupHandlers[c])
    /\ (Done /\ Raised /\ RaisedErr.Index \in {0, FallbackErrorIndex})
       => /\ CallsOf("specific") = <<>>
          /\ CallsOf("group") = <<>>
          /\ (outcome # Returns)
               <=> (ts.fallbackHandler = Nil /\ ts.globalHandler = Nil /\ FiltersPass)

\* C12 witness: a group naming 0, FallbackErrorIndex and 500 was registered,
\* code 500 got the handler, and a raised reserved code was re-raised.
C12_Witness ==
    /\ Done
    /\ RaisedClassified
    /\ RaisedErr.Index \in {0, FallbackErrorIndex}
    /\ \E i \in 1..Len(groupRegs) :
           groupRegs[i] = <<(<<0, FallbackErrorIndex, 500>>), "h1">>
    /\ 500 \in DOMAIN ts.groupHandlers
    /\ outcome.type = "Error"

\* C17: when the protected block returns without raising, the execution call
\* has run the block exactly once, evaluated no filter, invoked no handler,
\* and returns normally, whatever is registered.
C17_NoRaiseNoDispatch ==
    (Done /\ RecoverObj = Returns)
    => /\ Len(SelectSeq(log, LAMBDA e : e.ev = "block")) = 1
       /\ FilterCalls = <<>>
       /\ HandlerCalls = <<>>
       /\ outcome = Returns

\* C17 witness: the block returned under an engine with a filter, a fallback
\* handler and a global handler registered.
C17_Witness ==
    /\ Done
    /\ RecoverObj = Returns
    /\ ts.filters # <<>>
    /\ ts.fallbackHandler # Nil
    /\ ts.globalHandler # Nil
    /\ Len(log) = 1

\* C19: the order documented on Try.Finally and Try.Unknown: when a global
\* and a fallback handler both run for a raised error, the global handler is
\* invoked before the fallback handler.
C19_GlobalBeforeFallback ==
    (Done /\ CallsOf("global") # <<>> /\ CallsOf("fallback") # <<>>)
    => \E i, j \in 1..Len(HandlerCalls) :
           /\ i < j
           /\ HandlerCalls[i].kind = "global"
           /\ HandlerCalls[j].kind = "fallback"

\* The handler of the last call of the chain that satisfies sel and passes a
\* non-nil handler; Nil when there is no such call.
LastHandler(sel(_)) ==
    LET hits == SelectSeq(chain, LAMBDA c : sel(c) /\ c.fn # Nil)
    IN  IF hits = <<>> THEN Nil ELSE hits[Len(hits)].fn

LastIndexHandler(code) == LastHandler(LAMBDA c : c.op = "Index" /\ c.index = code)

LastCatchHandler == LastHandler(LAMBDA c : c.op = "Catch")

LastUnknownHandler == LastHandler(LAMBDA c : c.op = "Unknown")

\* C14: after any chain of registration calls, the specific handler stored
\* for a code is that of the last Index call for the code with a non-nil
\* handler, the global and the fallback handler are those of the last Catch
\* and the last Unknown call with a non-nil handler, and the calls with a
\* nil handler or an empty group change no registry; at dispatch only that
\* last-registered handler of each kind is invoked.
C14_LastRegistrationWins ==
    /\ \A c \in Codes \ {0, FallbackErrorIndex} :
           /\ c \in DOMAIN ts.specificHandlers <=> LastIndexHandler(c) # Nil
           /\ c \in DOMAIN ts.specificHandlers
              => ts.specificHandlers[c] = LastIndexHandler(c)
    /\ ts.globalHandler = LastCatchHandler
    /\ ts.fallbackHandler = LastUnknownHandler
    /\ ts = Replay(ts.tryFunc,
                   SelectSeq(chain, LAMBDA c : c.fn # Nil
                                               /\ (c.op = "Group" => c.group # <<>>)))
    /\ Done
       => /\ \A i \in 1..Len(CallsOf("specific")) :
                 CallsOf("specific")[i].fn = LastIndexHandler(RaisedErr.Index)
          /\ \A i \in 1..Len(CallsOf("global")) :
                 CallsOf("global")[i].fn = LastCatchHandler
          /\ \A i \in 1..Len(CallsOf("fallback")) :
                 CallsOf("fallback")[i].fn = LastUnknownHandler
          /\ Len(CallsOf("specific")) <= 1
          /\ Len(CallsOf("global")) <= 1
          /\ Len(CallsOf("fallback")) <= 1

\* C14 witness: Unknown(h1), Unknown(h2), Unknown(nil) were chained and the
\* fallback handler invoked at dispatch is h2.
C14_Witness ==
    /\ Done
    /\ Len(chain) = 3
    /\ \A i \in 1..3 : chain[i].op = "Unknown"
    /\ chain[1].fn = "h1" /\ chain[2].fn = "h2" /\ chain[3].fn = Nil
    /\ Fns(CallsOf("fallback")) = <<"h2">>

\* The handler calls the resolution makes when no handler raises.
PlannedHandlerCalls ==
    SelectSeq(executeHandlers(ts, RaisedErr).calls, LAMBDA e : e.ev = "handler")

\* A handler invoked by the execution call raised.
HandlerRaised ==
    /\ Done
    /\ \E i \in 1..Len(HandlerCalls) :
           HandlerResult(HandlerCalls[i].fn, HandlerCalls[i].err) # Returns

\* C20: when a handler raises during the dispatch of an error, the handlers
\* that would have run after it are not invoked, the original error is not
\* re-raised, the finalizer still runs exactly once, and the payload of the
\* handler is what the execution call raises to its caller.
C20_HandlerRaisePropagates ==
    HandlerRaised
    => LET n    == Len(HandlerCalls)
           last == HandlerCalls[n]
       IN  /\ HandlerResult(last.fn, last.err) # Returns
           /\ \A i \in 1..(n - 1) :
                  HandlerResult(HandlerCalls[i].fn, HandlerCalls[i].err) = Returns
           /\ HandlerCalls = SubSeq(PlannedHandlerCalls, 1, n)
           /\ outcome = HandlerResult(last.fn, last.err)
           /\ outcome # PanicError(RaisedErr)
           /\ finalizer # Nil
              => /\ Len(FinallyCalls) = 1
                 /\ log[Len(log)] = Event("finally", "", finalizer, ZeroError)

\* C20 witness: the specific handler raised, the registered global handler
\* was not invoked, and the finalizer has run.
C20_Witness ==
    /\ HandlerRaised
    /\ Len(HandlerCalls) = 1
    /\ HandlerCalls[1].kind = "specific"
    /\ ts.globalHandler # Nil
    /\ Len(PlannedHandlerCalls) = 2
    /\ finalizer # Nil
    /\ Len(FinallyCalls) = 1

\* The execution calls at the nesting levels below k all raised.
RaisedBelow(k) == \A j \in 0..(k - 1) : LevelOutcome(j) # Returns

\* C13: through nested engines, an error that no inner engine handles or
\* filters reaches each enclosing engine, and finally the outermost caller,
\* as a throw.Error with the code, message, context and stack it had when
\* first raised (or first normalized); an enclosing engine dispatches on
\* the original code.
C13_NestedPropagationPreserves ==
    (Done /\ Raised)
    => \A k \in 0..Len(outerRuns) :
           RaisedBelow(k)
           => /\ k > 0 => LevelEngine(k).tryFunc = PanicError(RaisedErr)
              /\ LevelOutcome(k) # Returns
                 => /\ LevelOutcome(k).type = "Error"
                    /\ LevelOutcome(k).err.Index = RaisedErr.Index
                    /\ LevelOutcome(k).err.Message = RaisedErr.Message
                    /\ LevelOutcome(k).err.Context = RaisedErr.Context
                    /\ LevelOutcome(k).err.Stack = RaisedErr.Stack
              /\ k > 0
                 => LET run == outerRuns[k]
                        eng == LevelEngine(k)
                    IN  /\ \A i \in 1..Len(run.log) :
                               run.log[i].ev \in {"filter", "handler"}
                               => run.log[i].err = RaisedErr
                        /\ (/\ RaisedErr.Index \in DOMAIN eng.specificHandlers
                            /\ eng.filters = <<>>)
                           => \E i \in 1..Len(run.log) :
                                  run.log[i] = HandlerCall("specific",
                                      eng.specificHandlers[RaisedErr.Index],
                                      RaisedErr)

\* C13 witness: an error carrying a context entry and a stack was re-raised
\* by the innermost engine and by two enclosing engines, one of which
\* evaluated a filter on it.
C13_Witness ==
    /\ Done
    /\ RaisedClassified
    /\ RaisedErr.Context = MapLit("userID", 123)
    /\ RaisedErr.Stack # ""
    /\ Len(outerRuns) = 2
    /\ \E i \in 1..Len(outerRuns[1].log) : outerRuns[1].log[i].ev = "filter"
    /\ outerRuns[2].outcome = PanicError(RaisedErr)

\* A WithContext or WithContextMap call has been made.
CtxCalled == lastOp.op # "none"

\* C15: WithContext and WithContextMap leave the context observed through
\* the receiver, and through every other value held before the call,
\* unchanged, for an unset and for an allocated context alike.
C15_WithContextPure ==
    CtxCalled
    => \A i \in 1..Len(lastOp.before) : ContextOf(heap, held[i]) = lastOp.before[i]

\* The value of key in a set of entries.
EntryValue(entries, key) == (CHOOSE p \in entries : p[1] = key)[2]

\* C16: on the value returned by WithContextMap(entries) (WithContext(k, v)
\* being the single-entry case), GetContext(k) returns (entries[k], true) for
\* every key of entries and what it returned on the receiver before the call
\* for every other key; GetContext and HasContext on an unset context or an
\* absent key return found = false, and HasContext(k) equals the found
\* result of GetContext(k).
C16_ContextLookup ==
    /\ CtxCalled
       => LET ret    == View(heap, held[Len(held)])
              before == Error(500, "msg", "stack", lastOp.before[lastOp.recv])
          IN  \A k \in CtxKeys \cup {"absent"} :
                  IF \E p \in lastOp.entries : p[1] = k
                  THEN GetContext(ret, k)
                         = [value |-> EntryValue(lastOp.entries, k), exists |-> TRUE]
                  ELSE GetContext(ret, k) = GetContext(before, k)
    /\ \A i \in 1..Len(held) :
           \A k \in CtxKeys \cup {"absent"} :
               LET e == View(heap, held[i])
               IN  /\ HasContext(e, k) = GetContext(e, k).exists
                   /\ (~e.Context.allocated \/ \A p \in e.Context.kv : p[1] # k)
                      => GetContext(e, k) = [value |-> Nil, exists |-> FALSE]

\* C16 witness: WithContextMap overwrote the value of key a and added key b
\* on a context that held a.
C16_Witness ==
    /\ lastOp.op = "WithContextMap"
    /\ lastOp.entries = {<<"a", 1>>, <<"b", 2>>}
    /\ lastOp.before[lastOp.recv] = [allocated |-> TRUE, kv |-> {<<"a", 2>>}]
    /\ GetContext(View(heap, held[Len(held)]), "a").value = 1

\* The helpers by what they test, by where their code comes from and by
\* what else they take and return.
OnTrueHelpers == {"True", "TrueWithContext", "TrueIndex", "TrueIndexWithContext"}

OnFalseHelpers == {"False", "FalseWithContext", "FalseIndex", "FalseIndexWithContext"}

OnErrorHelpers ==
    {"Err", "ErrWithContext", "FuncErr", "FuncErrWithContext",
     "ValueErr", "ValueErrWithContext", "IndexErr", "IndexErrWithContext"}

IndexHelpers ==
    {"TrueIndex", "TrueIndexWithContext", "FalseIndex", "FalseIndexWithContext",
     "IndexErr", "IndexErrWithContext"}

WithContextHelpers ==
    {"ErrWithContext", "TrueWithContext", "FalseWithContext", "TrueIndexWithContext",
     "FalseIndexWithContext", "FuncErrWithContext", "ValueErrWithContext",
     "IndexErrWithContext"}

ValueHelpers == {"ValueErr", "ValueErrWithContext"}

\* The condition of the helper that was called holds.
HelperCondition ==
    \/ helper.fn \in OnTrueHelpers /\ helper.value
    \/ helper.fn \in OnFalseHelpers /\ ~helper.value
    \/ helper.fn \in OnErrorHelpers /\ ~helper.err.nil

HelperRaised == helperResult.panic # Returns

\* C18: a conditional raise helper raises exactly when its condition holds
\* (value true for True/TrueIndex, value false for False/FalseIndex, error
\* non-nil for Err/IndexErr/FuncErr/ValueErr) and otherwise returns normally,
\* ValueErr returning the value. The raised payload is a throw.Error whose
\* message is the given message or the error's text, whose code is the given
\* index for the Index variants and FallbackErrorIndex for the others, and
\* whose context, for the WithContext variants, holds exactly the given key
\* mapped to the given value.
C18_HelpersRaiseIffCondition ==
    helper.fn # "none"
    => /\ HelperRaised <=> HelperCondition
       /\ ~HelperCondition
          => helperResult.ret = IF helper.fn \in ValueHelpers
                                THEN <<helper.value>> ELSE <<>>
       /\ HelperCondition
          => LET e == helperResult.panic.err
             IN  /\ helperResult.panic.type = "Error"
                 /\ e.Message = IF helper.fn \in OnErrorHelpers
                                THEN helper.err.text ELSE helper.message
                 /\ e.Index = IF helper.fn \in IndexHelpers
                              THEN helper.index ELSE FallbackErrorIndex
                 /\ helper.fn \in WithContextHelpers
                    => /\ e.Context.allocated
                       /\ e.Context.kv = {<<helper.key, helper.ctxValue>>}

\* C18 witness: False was called with a false value and raised its message
\* under FallbackErrorIndex.
C18_Witness ==
    /\ helper.fn = "False"
    /\ ~helper.value
    /\ helper.message = "msg"
    /\ HelperRaised
    /\ helperResult.panic.err.Message = "msg"
    /\ helperResult.panic.err.Index = FallbackErrorIndex

\* C21: for one raised error each registered filter is evaluated at most
\* once (the i-th evaluation is that of the i-th Try.Filter registration, a
\* filter function registered twice counting as two filters), every filter
\* evaluation precedes the first handler invocation, and an evaluation that
\* returns false is the last one.
C21_FilterShortCircuit ==
    Done
    => /\ Len(FilterCalls) <= Len(ts.filters)
       /\ \A i \in 1..Len(FilterCalls) : FilterCalls[i].fn = ts.filters[i]
       /\ \A i \in 1..Len(log) :
              log[i].ev = "handler"
              => \A j \in (i + 1)..Len(log) : log[j].ev # "filter"
       /\ \A i \in 1..Len(FilterCalls) :
              ~FilterResult(FilterCalls[i].fn, FilterCalls[i].err)
              => i = Len(FilterCalls)

\* C21 witness: of three registered filters the first returned true, the
\* second returned false and the third was not evaluated.
C21_Witness ==
    /\ Done
    /\ Raised
    /\ Len(ts.filters) = 3
    /\ Len(FilterCalls) = 2
    /\ FilterResult(FilterCalls[1].fn, RaisedErr)
    /\ ~FilterResult(FilterCalls[2].fn, RaisedErr)
    /\ HandlerCalls = <<>>

\* The number of occurrences of code c in a group.
Occurrences(group, c) == Cardinality({i \in 1..Len(group) : group[i] = c})

\* The handler h, n times.
Repeat(h, n) == [i \in 1..n |-> h]

\* For code c, the handler of each of the first n Try.Group calls that passed
\* a non-nil handler, once per occurrence of c in the group of the call, in
\* call order.
RECURSIVE OncePerOccurrence(_, _)
OncePerOccurrence(c, n) ==
    IF n = 0
    THEN <<>>
    ELSE OncePerOccurrence(c, n - 1)
         \o (IF groupRegs[n][2] # Nil
             THEN Repeat(groupRegs[n][2], Occurrences(groupRegs[n][1], c))
             ELSE <<>>)

\* C22 as stated: for a raised error of any code c, the handler of each
\* Try.Group call is invoked once per occurrence of c in the group of that
\* call.
C22_Original ==
    (Done /\ Raised)
    => Fns(CallsOf("group")) = OncePerOccurrence(RaisedErr.Index, Len(groupRegs))

\* C22 amended: for a raised error of a code c other than 0 and
\* FallbackErrorIndex that no filter rejects, the handler of each Try.Group
\* call is invoked with that error once per occurrence of c in the group of
\* that call: once when the group names c once, twice for Group{c, c}, and a
\* handler passed to two Try.Group calls whose groups both name c once is
\* invoked twice.
C22_GroupHandlerPerOccurrence ==
    (/\ Done
     /\ Raised
     /\ FiltersPass
     /\ RaisedErr.Index \notin {0, FallbackErrorIndex})
    => /\ Fns(CallsOf("group")) = OncePerOccurrence(RaisedErr.Index, Len(groupRegs))
       /\ \A h \in Handlers :
              Len(SelectSeq(CallsOf("group"), LAMBDA e : e.fn = h /\ e.err = RaisedErr))
                = Len(SelectSeq(OncePerOccurrence(RaisedErr.Index, Len(groupRegs)),
                                LAMBDA f : f = h))

\* C22 witness: h1 was passed to Try.Group with Group{404, 404} and with
\* Group{404}, and a raise of code 404 invoked it three times.
C22_Witness ==
    /\ Done
    /\ Raised
    /\ FiltersPass
    /\ RaisedErr.Index = 404
    /\ groupRegs = <<<<(<<404, 404>>), "h1">>, <<(<<404>>), "h1">>>>
    /\ Fns(CallsOf("group")) = <<"h1", "h1", "h1">>

====
